---- MODULE Spec2Model ----
(***************************************************************************)
(* A model of main.py: the POST /parse_resume/ handler, the text it        *)
(* sanitizes and parses, and the CRM state it reads and writes.            *)
(*                                                                         *)
(* Text.  A Python str is modelled as a sequence of tokens.  A token is a  *)
(* pair: <<"c", ch>> is the single character ch, <<"s", content>> is a     *)
(* whole JSON string literal (quotes included) whose content is a sequence *)
(* of chunks (a chunk is one whitespace character or one run of            *)
(* non-whitespace characters).  A string literal begins and ends with a    *)
(* double quote, which none of the handler's regular expressions can       *)
(* consume, so treating the literal as one token loses no behaviour of     *)
(* strip() or re.sub().                                                     *)
(***************************************************************************)
EXTENDS Integers, Sequences, FiniteSets, TLC

\* ---------------------------------------------------------------- bounds
MaxReqs == 2         \* requests the service receives
NumWorkers == 2      \* server processes (one event loop each) sharing the CRM
MaxPad == 1          \* whitespace tokens put before/after a JSON text
MaxElems == 2        \* elements of a generated JSON array / members of an object

\* ------------------------------------------------------------ characters
C(ch) == <<"c", ch>>
S(content) == <<"s", content>>
\* the backquote character U+0060 (the one character of a markdown fence),
\* written "BQ" because a TLA+ string cannot hold it
BT == C("BQ")
SP == C(" ")
NL == C("\n")

\* what str.strip() strips and what \s matches
IsSpace(tok) == tok \in {SP, NL}

Drop(s, n) == SubSeq(s, n + 1, Len(s))
Take(s, n) == SubSeq(s, 1, n)

\* number of leading whitespace tokens of s
RECURSIVE LeadSpaces(_)
LeadSpaces(s) ==
    IF s # <<>> /\ IsSpace(Head(s)) THEN 1 + LeadSpaces(Tail(s)) ELSE 0

\* number of trailing whitespace tokens of s
RECURSIVE TrailSpaces(_)
TrailSpaces(s) ==
    IF s # <<>> /\ IsSpace(s[Len(s)]) THEN 1 + TrailSpaces(Take(s, Len(s) - 1)) ELSE 0

\* str.strip()
strip(s) ==
    LET l == LeadSpaces(s)
    IN  IF l = Len(s) THEN <<>> ELSE SubSeq(s, l + 1, Len(s) - TrailSpaces(s))

StartsWith(s, p) == Len(s) >= Len(p) /\ Take(s, Len(p)) = p
EndsWith(s, p) == Len(s) >= Len(p) /\ Drop(s, Len(s) - Len(p)) = p

FENCE == <<BT, BT, BT>>
JSONTAG == <<C("j"), C("s"), C("o"), C("n")>>

\* ------------------------------------------------- response sanitization
\* the pattern without its optional group: r"^```\s*"
C6_sub_leading_fence_mutant(raw) ==
    IF StartsWith(raw, FENCE)
    THEN LET a == Drop(raw, Len(FENCE)) IN Drop(a, LeadSpaces(a))
    ELSE raw

\* re.sub(r"^```(?:json)?\s*", "", raw): a fence at the very start, the tag
\* json if it follows, and all the whitespace after it
sub_leading_fence(raw) ==
    IF StartsWith(raw, FENCE)
    THEN LET a == Drop(raw, Len(FENCE))
             b == IF StartsWith(a, JSONTAG) THEN Drop(a, Len(JSONTAG)) ELSE a
         IN  Drop(b, LeadSpaces(b))
    ELSE raw

\* re.sub(r"\s*```$", "", raw): a fence at the very end (or, as $ allows,
\* just before a final newline) and all the whitespace before it.  The
\* pattern can match at most once.
sub_trailing_fence(raw) ==
    IF EndsWith(raw, FENCE)
    THEN LET a == Take(raw, Len(raw) - Len(FENCE))
         IN  Take(a, Len(a) - TrailSpaces(a))
    ELSE IF EndsWith(raw, FENCE \o <<NL>>)
         THEN LET a == Take(raw, Len(raw) - Len(FENCE) - 1)
              IN  Take(a, Len(a) - TrailSpaces(a)) \o <<NL>>
         ELSE raw

\* lines 154-157: raw = response.text.strip(), then the two re.sub calls
sanitize(text) == sub_trailing_fence(sub_leading_fence(strip(text)))

\* ------------------------------------------------------------ json.loads
\* A JSON value is [t |-> tag, v |-> payload]: a string ("str", its content),
\* a number ("num", its digits), null, nan, an array ("arr", the sequence of
\* its values) or an object ("obj", the sequence of its <<key, value>> members
\* in source order).  The decoder reads strings, runs of the digit 1, null,
\* NaN, arrays and objects; any other text is a JSONDecodeError.
NoValue == [t |-> "none", v |-> <<>>]
Fail == [ok |-> FALSE, val |-> NoValue, nxt |-> 0]
Ok(val, nxt) == [ok |-> TRUE, val |-> val, nxt |-> nxt]
NULL == <<C("n"), C("u"), C("l"), C("l")>>
Digit == C("1")
\* the constant NaN, which json.loads accepts and decodes to float("nan")
NAN == C("NaN")

\* index of the first non-whitespace token at or after i
SkipWs(t, i) == i + LeadSpaces(Drop(t, i - 1))

RECURSIVE DigitRun(_, _)
DigitRun(t, i) == IF i <= Len(t) /\ t[i] = Digit THEN 1 + DigitRun(t, i + 1) ELSE 0

RECURSIVE ParseValue(_, _)
RECURSIVE ParseElems(_, _, _)
RECURSIVE ParseMembers(_, _, _)

\* value (, value)* ] with i just after [ or after a comma
ParseElems(t, i, acc) ==
    LET r == ParseValue(t, i)
        j == SkipWs(t, r.nxt)
    IN  IF ~r.ok \/ j > Len(t) THEN Fail
        ELSE IF t[j] = C(",") THEN ParseElems(t, j + 1, Append(acc, r.val))
        ELSE IF t[j] = C("]") THEN Ok([t |-> "arr", v |-> Append(acc, r.val)], j + 1)
        ELSE Fail

\* string : value (, string : value)* } with i just after { or after a comma
ParseMembers(t, i, acc) ==
    LET k == SkipWs(t, i)
        c == SkipWs(t, k + 1)
        r == ParseValue(t, c + 1)
        j == SkipWs(t, r.nxt)
    IN  IF k > Len(t) \/ t[k][1] # "s" THEN Fail
        ELSE IF c > Len(t) \/ t[c] # C(":") THEN Fail
        ELSE IF ~r.ok \/ j > Len(t) THEN Fail
        ELSE IF t[j] = C(",")
             THEN ParseMembers(t, j + 1, Append(acc, <<t[k][2], r.val>>))
        ELSE IF t[j] = C("}")
             THEN Ok([t |-> "obj", v |-> Append(acc, <<t[k][2], r.val>>)], j + 1)
        ELSE Fail

ParseValue(t, i0) ==
    LET i == SkipWs(t, i0)
    IN  IF i > Len(t) THEN Fail
        ELSE IF t[i][1] = "s" THEN Ok([t |-> "str", v |-> t[i][2]], i + 1)
        ELSE IF t[i] = Digit
             THEN Ok([t |-> "num", v |-> SubSeq(t, i, i + DigitRun(t, i) - 1)],
                     i + DigitRun(t, i))
        ELSE IF i + 3 <= Len(t) /\ SubSeq(t, i, i + 3) = NULL
             THEN Ok([t |-> "null", v |-> <<>>], i + 4)
        ELSE IF t[i] = NAN THEN Ok([t |-> "nan", v |-> <<>>], i + 1)
        ELSE IF t[i] = C("[")
             THEN IF SkipWs(t, i + 1) <= Len(t) /\ t[SkipWs(t, i + 1)] = C("]")
                  THEN Ok([t |-> "arr", v |-> <<>>], SkipWs(t, i + 1) + 1)
                  ELSE ParseElems(t, i + 1, <<>>)
        ELSE IF t[i] = C("{")
             THEN IF SkipWs(t, i + 1) <= Len(t) /\ t[SkipWs(t, i + 1)] = C("}")
                  THEN Ok([t |-> "obj", v |-> <<>>], SkipWs(t, i + 1) + 1)
                  ELSE ParseMembers(t, i + 1, <<>>)
        ELSE Fail

\* json.loads(raw): one value, whitespace around it allowed, nothing else
loads(raw) ==
    LET r == ParseValue(raw, 1)
    IN  IF r.ok /\ SkipWs(raw, r.nxt) > Len(raw) THEN r ELSE Fail

\* dict access on a decoded object: the last member with the key wins
HasKey(obj, key) == \E n \in 1..Len(obj.v) : obj.v[n][1] = key
GetKey(obj, key) ==
    LET n == CHOOSE m \in 1..Len(obj.v) :
                 obj.v[m][1] = key /\ \A q \in (m + 1)..Len(obj.v) : obj.v[q][1] # key
    IN  obj.v[n][2]

\* ------------------------------------------------------- Python str values
\* A str that is not parsed further is its sequence of chunks; "" is <<>>.
\* name.split(): the non-whitespace chunks
split(str) == SelectSeq(str, LAMBDA ch : ch \notin {" ", "\n"})

\* " ".join(parts)
RECURSIVE join_space(_)
join_space(parts) ==
    IF parts = <<>> THEN <<>>
    ELSE IF Len(parts) = 1 THEN <<parts[1]>>
    ELSE <<parts[1], " ">> \o join_space(Tail(parts))

\* ";".join(selected) for one iteration order of the set, given as a sequence
RECURSIVE join_semicolon(_)
join_semicolon(order) ==
    IF order = <<>> THEN <<>>
    ELSE IF Len(order) = 1 THEN order[1]
    ELSE order[1] \o <<";">> \o join_semicolon(Tail(order))

\* the iteration orders of a set (Python fixes none for a set of str)
Orders(set) ==
    {f \in [1..Cardinality(set) -> set] : \A i, j \in 1..Cardinality(set) : f[i] = f[j] => i = j}

\* --------------------------------------------------------------- inputs
PDF == "application/pdf"
DOCX == "application/vnd.openxmlformats-officedocument.wordprocessingml.document"
MSWORD == "application/msword"
\* the declared content types a client sends: the three the handler names
\* and one it does not
ContentTypes == {PDF, DOCX, MSWORD, "text/plain"}

\* a run of non-whitespace characters of a document
Word(w) == C(w)

\* what pdfplumber yields for a PDF it can open: its pages' extract_text()
\* results (None for a page without text); the first document has no page
None == <<C("None")>>
PdfDocuments ==
    {<<>>, <<None>>, <<<<NL>>, <<SP>>>>,
     <<<<Word("John"), SP, Word("Doe"), NL>>, None, <<Word("Python")>>>>}
\* what python-docx yields for a file it can open: its paragraphs' text
DocxDocuments == {<<>>, <<<<SP>>>>, <<<<Word("John"), SP, Word("Doe")>>, <<SP>>, <<Word("Python")>>>>}

\* building JSON text
Q(chunk) == S(<<chunk>>)
Member(key, value) == <<Q(key), C(":")>> \o value
RECURSIVE Commas(_)
Commas(items) ==
    IF items = <<>> THEN <<>>
    ELSE IF Len(items) = 1 THEN items[1]
    ELSE items[1] \o <<C(","), SP>> \o Commas(Tail(items))
Object(members) == <<C("{")>> \o Commas(members) \o <<C("}")>>
Array(items) == <<C("[")>> \o Commas(items) \o <<C("]")>>

EMAIL1 == <<"john@x.com">>
Name == Member("name", <<S(<<"John", " ", "Doe">>)>>)
Email == Member("email", <<S(EMAIL1)>>)
Phone == Member("phone", <<Q("555")>>)
JobTitle == Member("job_title", <<Q("Engineer")>>)
Company == Member("company", <<Q("Acme")>>)
Skills(list) == Member("skills", Array([i \in 1..Len(list) |-> <<Q(list[i])>>]))

\* what the model sends back (response.text).  The field skills is a list
\* of strings or is absent, name is a string or is absent.
LLMResponses == {
    \* the object the prompt asks for
    Object(<<Name, Email, Phone, JobTitle, Skills(<<"Python">>), Company>>),
    \* the same candidate with another skill, in a fenced block tagged json
    FENCE \o JSONTAG \o <<NL>>
       \o Object(<<Name, Email, Phone, JobTitle, Skills(<<"Go">>), Company>>)
       \o <<NL>> \o FENCE \o <<NL>>,
    \* no email
    Object(<<Name, Phone, JobTitle, Skills(<<"Go">>), Company>>),
    \* no phone
    Object(<<Email, JobTitle, Skills(<<"Python">>), Company>>),
    \* every key the handler reads, and an experience that is no JSON number
    Object(<<Name, Email, Phone, JobTitle, Skills(<<"Go">>), Company,
             Member("experience", <<NAN>>)>>),
    \* a trailing comma, in a fenced block
    FENCE \o <<NL, C("{")>> \o Email \o <<C(","), C("}"), NL>> \o FENCE,
    \* JSON, but a list
    Array(<<<<Q("Python")>>>>) }

\* ---------------------------------------------------------------- state
Reqs == 1..MaxReqs
Workers == 1..NumWorkers

VARIABLES
    pc,             \* pc[r]: where request r's handler stands
    worker,         \* worker[r]: the server process that runs request r
    content_type,   \* file.content_type
    text,           \* the extracted text
    file_url,       \* what upload_bytes_to_hs returned
    raw,            \* the sanitized model response
    parsed,         \* json.loads(raw)
    existing,       \* the option values read from the skills property
    search_res,     \* the id of search_res.results[0], 0 when there is none
    resp,           \* the HTTP response: status and body
    ops,            \* ops[r]: the outbound calls request r issued, in order
    tmp_files,      \* number of NamedTemporaryFile files on disk
    hs_files,       \* the requests whose file is in the document store
    skill_options,  \* the option values of the CRM property skills
    contacts,       \* the CRM contacts; a contact's id is its index
    san             \* the sanitization run of SpecSanitize

reqvars == <<pc, worker, content_type, text, file_url, raw, parsed, existing, search_res, resp, ops>>
crmvars == <<tmp_files, hs_files, skill_options, contacts>>
vars == <<reqvars, crmvars, san>>

NoResp == [status |-> 0, body |-> NoValue]
NoSan == [J |-> <<>>, wrap |-> "", text |-> <<>>, step |-> "off"]

\* a contact the CRM already holds for EMAIL1
OldContact ==
    [email |-> EMAIL1, firstname |-> <<"J">>, lastname |-> <<>>, phone |-> NoValue,
     jobtitle |-> NoValue, company |-> NoValue, skills |-> <<>>, resume_file_url |-> 0]

InitReqs ==
    /\ pc = [r \in Reqs |-> "idle"]
    /\ worker = [r \in Reqs |-> 0]
    /\ content_type = [r \in Reqs |-> ""]
    /\ text = [r \in Reqs |-> <<>>]
    /\ file_url = [r \in Reqs |-> 0]
    /\ raw = [r \in Reqs |-> <<>>]
    /\ parsed = [r \in Reqs |-> NoValue]
    /\ existing = [r \in Reqs |-> {}]
    /\ search_res = [r \in Reqs |-> 0]
    /\ resp = [r \in Reqs |-> NoResp]
    /\ ops = [r \in Reqs |-> <<>>]

InitCRM ==
    /\ tmp_files = 0
    /\ hs_files = {}
    /\ skill_options = {<<"SQL">>}
    /\ contacts \in {<<>>, <<OldContact>>}

Init == InitReqs /\ InitCRM /\ san = NoSan

\* ------------------------------------------------------------- responses
\* raise HTTPException(status_code, detail) leaving the handler
HTTPException(status_code, detail) ==
    [status |-> status_code, body |-> [t |-> "detail", v |-> detail]]

\* every failure between lines 142 and 243 that is no JSONDecodeError: line 283
AIParsingFailed(what) == HTTPException(500, <<"AI parsing failed: ", what>>)

\* the except clause of line 280 answering as the one of line 282 does
C5_InvalidJSON_mutant == AIParsingFailed("JSONDecodeError")
\* line 281
InvalidJSON == HTTPException(500, <<"Gemini returned invalid JSON.">>)

\* a decoded value that holds the float nan somewhere
RECURSIVE HasNaN(_)
HasNaN(val) ==
    CASE val.t = "nan" -> TRUE
      [] val.t = "arr" -> \E i \in 1..Len(val.v) : HasNaN(val.v[i])
      [] val.t = "obj" -> \E i \in 1..Len(val.v) : HasNaN(val.v[i][2])
      [] OTHER -> FALSE

\* line 243, return JSONResponse(content=parsed): the constructor renders
\* the body with json.dumps(allow_nan=False), which raises ValueError on a
\* nan; the call stands inside the try, so line 283 answers
JSONResponse(content) ==
    IF HasNaN(content)
    THEN AIParsingFailed("ValueError")
    ELSE [status |-> 200, body |-> content]

\* an outbound call, logged with how it ended: res is "ok" when it returned
\* and "raised" when it raised (arg: the contact id of an update, else 0),
\* wrote tells whether it changed the skills property or a contact
Issue(r, call, arg, res) ==
    ops' = [ops EXCEPT ![r] = Append(@,
               [call |-> call, arg |-> arg, res |-> res,
                wrote |-> <<skill_options', contacts'>> # <<skill_options, contacts>>])]
\* the handler ends: its locals stay as they are
Respond(r, response) ==
    /\ pc' = [pc EXCEPT ![r] = "done"]
    /\ resp' = [resp EXCEPT ![r] = response]
Goto(r, label) ==
    /\ pc' = [pc EXCEPT ![r] = label]
    /\ UNCHANGED resp

\* the request a worker's event loop is running: the handler awaits nothing
\* after file.read(), so from there to its response no other handler of the
\* same process runs
Running(r) == pc[r] \notin {"idle", "read", "done"}
LoopFree(w) == \A q \in Reqs : worker[q] = w => ~Running(q)

\* ------------------------------------------------------- text extraction
\* lines 61-66: the pages' texts concatenated, None counted as ""
RECURSIVE extract_text_from_pdf(_)
extract_text_from_pdf(pages) ==
    IF pages = <<>> THEN <<>>
    ELSE (IF Head(pages) = None THEN <<>> ELSE Head(pages))
         \o extract_text_from_pdf(Tail(pages))

\* "\n".join(lines)
RECURSIVE join_newline(_)
join_newline(lines) ==
    IF lines = <<>> THEN <<>>
    ELSE IF Len(lines) = 1 THEN lines[1]
    ELSE lines[1] \o <<NL>> \o join_newline(Tail(lines))

\* line 73: the paragraphs that are not blank, joined by newlines
extract_text_from_docx(paragraphs) ==
    join_newline(SelectSeq(paragraphs, LAMBDA para : strip(para) # <<>>))

\* the worker processes are interchangeable: they are numbered in the order
\* they first receive a request
NextWorkers(r) == {w \in Workers : \A v \in 1..(w - 1) : \E q \in 1..(r - 1) : worker[q] = v}

\* lines 110-112: the request arrives at a worker and the handler awaits
\* file.read(); requests are numbered in the order they arrive
Receive(r) ==
    /\ pc[r] = "idle"
    /\ \A q \in Reqs : q < r => pc[q] # "idle"
    /\ \E w \in NextWorkers(r), ct \in ContentTypes :
          /\ worker' = [worker EXCEPT ![r] = w]
          /\ content_type' = [content_type EXCEPT ![r] = ct]
    /\ Goto(r, "read")
    /\ UNCHANGED <<text, file_url, raw, parsed, existing, search_res, ops, crmvars, san>>

\* the three content types lines 117-122 accept
Accepted == {PDF, DOCX, MSWORD}

\* line 129 as "if not text:", without the strip()
C4_AfterExtract_mutant(r, extracted) ==
    /\ text' = [text EXCEPT ![r] = extracted]
    /\ IF extracted = <<>>
       THEN Respond(r, HTTPException(400, <<"No text extracted from the file.">>))
       ELSE Goto(r, "upload")

\* lines 129-130 after a successful extraction
AfterExtract(r, extracted) ==
    /\ text' = [text EXCEPT ![r] = extracted]
    /\ IF strip(extracted) = <<>>
       THEN Respond(r, HTTPException(400, <<"No text extracted from the file.">>))
       ELSE Goto(r, "upload")

\* the status line 127 answers with, whatever was raised inside the try
ExtractErrorStatus(raised) == 500

\* lines 116-130: the branch on the content type, inside try/except Exception
ExtractText(r) ==
    /\ pc[r] = "read"
    /\ LoopFree(worker[r])
    /\ UNCHANGED <<worker, content_type, file_url, raw, parsed, existing, search_res,
                   hs_files, skill_options, contacts, san>>
    /\ \/ /\ content_type[r] = PDF
          /\ UNCHANGED tmp_files
          /\ \/ \E doc \in PdfDocuments :
                   /\ Issue(r, "extract_text_from_pdf", 0, "ok")
                   /\ AfterExtract(r, extract_text_from_pdf(doc))
             \/ \* pdfplumber raises
                /\ Issue(r, "extract_text_from_pdf", 0, "raised")
                /\ Respond(r, HTTPException(ExtractErrorStatus(500),
                                            <<"Failed to extract text: ", "pdfplumber">>))
                /\ UNCHANGED text
       \/ /\ content_type[r] \in {DOCX, MSWORD}
          \* lines 69-72: NamedTemporaryFile(delete=False) is closed at the end
          \* of the with block and nothing unlinks it
          /\ tmp_files' = tmp_files + 1
          /\ \/ \E doc \in DocxDocuments :
                   /\ Issue(r, "extract_text_from_docx", 0, "ok")
                   /\ AfterExtract(r, extract_text_from_docx(doc))
             \/ \* Document(tmp.name) raises
                /\ Issue(r, "extract_text_from_docx", 0, "raised")
                /\ Respond(r, HTTPException(ExtractErrorStatus(500),
                                            <<"Failed to extract text: ", "docx">>))
                /\ UNCHANGED text
       \/ /\ content_type[r] \notin Accepted
          \* line 125 raises HTTPException(400) inside the try; HTTPException
          \* is an Exception, so line 126 catches it and line 127 raises 500
          /\ Respond(r, HTTPException(ExtractErrorStatus(400),
                                      <<"Failed to extract text: ", "Unsupported file format.">>))
          /\ UNCHANGED <<text, ops, tmp_files>>

\* lines 136-137 swallowing the exception ("except Exception: pass")
C7_UploadFailed_mutant(r, what) == Goto(r, "llm")

\* lines 136-137: whatever upload_bytes_to_hs raised becomes a 500
UploadFailed(r, what) == Respond(r, HTTPException(500, <<"File upload failed: ", what>>))

\* lines 75-107 and 133-137
upload_bytes_to_hs(r) ==
    /\ pc[r] = "upload"
    /\ UNCHANGED <<worker, content_type, text, raw, parsed, existing, search_res,
                   tmp_files, skill_options, contacts, san>>
    /\ \/ \* raise_for_status() fails: line 101 raises
          /\ Issue(r, "upload_bytes_to_hs", 0, "raised")
          /\ UploadFailed(r, "HubSpot upload failed: ")
          /\ UNCHANGED <<file_url, hs_files>>
       \/ \* the file is stored but the answer holds no url: line 105 raises
          /\ Issue(r, "upload_bytes_to_hs", 0, "raised")
          /\ hs_files' = hs_files \cup {r}
          /\ UploadFailed(r, "File uploaded, but URL not returned by HubSpot.")
          /\ UNCHANGED file_url
       \/ /\ Issue(r, "upload_bytes_to_hs", 0, "ok")
          /\ hs_files' = hs_files \cup {r}
          /\ file_url' = [file_url EXCEPT ![r] = r]
          /\ Goto(r, "llm")

\* ------------------------------------------------- the model and the CRM
\* parsed.get("name", "")
name_of(obj) == IF HasKey(obj, <<"name">>) THEN GetKey(obj, <<"name">>) ELSE [t |-> "str", v |-> <<>>]
\* lines 160-163
firstname(obj) ==
    LET parts == split(name_of(obj).v) IN IF parts # <<>> THEN <<parts[1]>> ELSE <<>>
lastname(obj) ==
    LET parts == split(name_of(obj).v) IN IF Len(parts) > 1 THEN join_space(Tail(parts)) ELSE <<>>

\* line 173: set(parsed.get("skills", []))
incoming(obj) ==
    IF HasKey(obj, <<"skills">>)
    THEN LET list == GetKey(obj, <<"skills">>).v IN {list[i].v : i \in 1..Len(list)}
    ELSE {}

\* line 176 sending the incoming values only
C10_combined_mutant(old, new) == new

\* line 176: existing.union(incoming)
combined(old, new) == old \cup new

\* lines 140-163: the prompt, the call of the model, the cleanup, json.loads,
\* the name
generate_content(r) ==
    /\ pc[r] = "llm"
    /\ UNCHANGED <<worker, content_type, text, file_url, existing, search_res, crmvars, san>>
    /\ \/ \* the call raises
          /\ Issue(r, "generate_content", 0, "raised")
          /\ Respond(r, AIParsingFailed("generate_content"))
          /\ UNCHANGED <<raw, parsed>>
       \/ \E response \in LLMResponses :
             LET cleaned == sanitize(response)
                 decoded == loads(cleaned)
             IN  /\ Issue(r, "generate_content", 0, "ok")
                 /\ raw' = [raw EXCEPT ![r] = cleaned]
                 /\ IF ~decoded.ok
                    THEN /\ Respond(r, InvalidJSON)
                         /\ UNCHANGED parsed
                    ELSE /\ parsed' = [parsed EXCEPT ![r] = decoded.val]
                         /\ IF decoded.val.t # "obj" \/ name_of(decoded.val).t # "str"
                            THEN \* parsed.get or .strip() raises AttributeError
                                 Respond(r, AIParsingFailed("AttributeError"))
                            ELSE Goto(r, "get_prop")

\* lines 166-173: read the property skills
get_by_name(r) ==
    /\ pc[r] = "get_prop"
    /\ UNCHANGED <<worker, content_type, text, file_url, raw, parsed, search_res, crmvars, san>>
    /\ \/ /\ Issue(r, "properties.get_by_name", 0, "raised")
          /\ Respond(r, AIParsingFailed("properties.get_by_name"))
          /\ UNCHANGED existing
       \/ /\ Issue(r, "properties.get_by_name", 0, "ok")
          /\ existing' = [existing EXCEPT ![r] = skill_options]
          /\ Goto(r, "update_prop")

\* lines 176-201: write the property with the union as its options (the
\* options are sent sorted, so the set fixes the list), then parsed["email"]
update_property(r) ==
    /\ pc[r] = "update_prop"
    /\ UNCHANGED <<worker, content_type, text, file_url, raw, parsed, existing, search_res,
                   tmp_files, hs_files, contacts, san>>
    /\ \/ /\ UNCHANGED skill_options
          /\ Issue(r, "properties.update", 0, "raised")
          /\ Respond(r, AIParsingFailed("properties.update"))
       \/ /\ skill_options' = combined(existing[r], incoming(parsed[r]))
          /\ Issue(r, "properties.update", 0, "ok")
          /\ IF HasKey(parsed[r], <<"email">>)
             THEN Goto(r, "search")
             ELSE Respond(r, AIParsingFailed("KeyError: 'email'"))

\* the contacts whose email equals value
Matches(value) == {id \in 1..Len(contacts) : contacts[id].email = value}

\* search_res.results for limit=1: one of the matching contacts, if any
Results(value) == IF Matches(value) = {} THEN {0} ELSE Matches(value)

\* the keys the dict literals of lines 215-223 and 228-237 look up
WriteKeys == {<<"phone">>, <<"job_title">>, <<"company">>}

\* line 209 never taking the update branch
C3_Branch_mutant(found) == "create"

\* line 209: the branch taken on search_res.results
Branch(found) == IF found # 0 THEN "update" ELSE "create"

\* lines 203-211 and the dict literal the branch taken builds
do_search(r) ==
    /\ pc[r] = "search"
    /\ UNCHANGED <<worker, content_type, text, file_url, raw, parsed, existing, crmvars, san>>
    /\ \/ /\ Issue(r, "contacts.do_search", 0, "raised")
          /\ Respond(r, AIParsingFailed("contacts.do_search"))
          /\ UNCHANGED search_res
       \/ \E found \in Results(GetKey(parsed[r], <<"email">>).v) :
             /\ Issue(r, "contacts.do_search", 0, "ok")
             /\ search_res' = [search_res EXCEPT ![r] = found]
             /\ IF \E key \in WriteKeys : ~HasKey(parsed[r], key)
                THEN Respond(r, AIParsingFailed("KeyError"))
                ELSE Goto(r, Branch(found))

\* the properties both branches send, for one iteration order of incoming
Properties(r, order) ==
    [firstname |-> firstname(parsed[r]), lastname |-> lastname(parsed[r]),
     phone |-> GetKey(parsed[r], <<"phone">>),
     jobtitle |-> GetKey(parsed[r], <<"job_title">>),
     company |-> GetKey(parsed[r], <<"company">>),
     skills |-> join_semicolon(order),
     resume_file_url |-> file_url[r]]

\* lines 211-225 and 243
contacts_update(r) ==
    /\ pc[r] = "update"
    /\ UNCHANGED <<worker, content_type, text, file_url, raw, parsed, existing, search_res,
                   tmp_files, hs_files, skill_options, san>>
    /\ \/ /\ UNCHANGED contacts
          /\ Issue(r, "contacts.update", search_res[r], "raised")
          /\ Respond(r, AIParsingFailed("contacts.update"))
       \/ \E order \in Orders(incoming(parsed[r])) :
             /\ contacts' = [contacts EXCEPT ![search_res[r]] =
                               [email |-> @.email] @@ Properties(r, order)]
             /\ Issue(r, "contacts.update", search_res[r], "ok")
             /\ Respond(r, JSONResponse(parsed[r]))

\* lines 227-243
contacts_create(r) ==
    /\ pc[r] = "create"
    /\ UNCHANGED <<worker, content_type, text, file_url, raw, parsed, existing, search_res,
                   tmp_files, hs_files, skill_options, san>>
    /\ \/ /\ UNCHANGED contacts
          /\ Issue(r, "contacts.create", 0, "raised")
          /\ Respond(r, AIParsingFailed("contacts.create"))
       \/ \E order \in Orders(incoming(parsed[r])) :
             /\ contacts' = Append(contacts,
                               [email |-> GetKey(parsed[r], <<"email">>).v] @@ Properties(r, order))
             /\ Issue(r, "contacts.create", 0, "ok")
             /\ Respond(r, JSONResponse(parsed[r]))

\* the handler of POST /parse_resume/ for request r
parse_resume(r) ==
    \/ Receive(r)
    \/ ExtractText(r)
    \/ upload_bytes_to_hs(r)
    \/ generate_content(r)
    \/ get_by_name(r)
    \/ update_property(r)
    \/ do_search(r)
    \/ contacts_update(r)
    \/ contacts_create(r)

Next == \E r \in Reqs : parse_resume(r)

Spec == Init /\ [][Next]_vars

\* ------------------------------------------------- properties of requests
Done(r) == pc[r] = "done"
\* the calls request r issued, and those of them that returned
Calls(r) == {ops[r][i].call : i \in 1..Len(ops[r])}
Returned(r) == {ops[r][i].call : i \in {j \in 1..Len(ops[r]) : ops[r][j].res = "ok"}}
Wrote(r) == {ops[r][i].call : i \in {j \in 1..Len(ops[r]) : ops[r][j].wrote}}

ExtractCalls == {"extract_text_from_pdf", "extract_text_from_docx"}
PropertyCalls == {"properties.get_by_name", "properties.update"}
ContactWrites == {"contacts.create", "contacts.update"}
ContactCalls == {"contacts.do_search"} \cup ContactWrites
CRMCalls == PropertyCalls \cup ContactCalls
AfterExtractCalls == {"upload_bytes_to_hs", "generate_content"} \cup CRMCalls

\* the contact writes request r issued, in order
Writes(r) == SelectSeq(ops[r], LAMBDA op : op.call \in ContactWrites)
\* the request's last call returned
LastReturned(log) == log # <<>> /\ log[Len(log)].res = "ok"

Detail(text_) == [t |-> "detail", v |-> text_]

\* C1: a request whose content type is none of the three accepted ones is
\* answered 400 with the unsupported-format detail, and issues neither the
\* upload, nor the LLM call, nor any CRM call.
C1_Unsupported400 ==
    \A r \in Reqs :
        Done(r) /\ content_type[r] \notin Accepted =>
            /\ resp[r].status = 400
            /\ Calls(r) \cap AfterExtractCalls = {}

\* C2: the skills enumeration only grows: no step, of whichever request and
\* however the requests overlap, removes a value from it.
C2_SkillsMonotonic == [][skill_options \subseteq skill_options']_vars

\* C4: a request whose extraction succeeded with a text that is empty or
\* all whitespace is answered 400 and calls neither the uploader, nor the
\* LLM, nor the CRM.
C4_BlankText400 ==
    \A r \in Reqs :
        Done(r) /\ Returned(r) \cap ExtractCalls # {} /\ strip(text[r]) = <<>> =>
            /\ resp[r] = [status |-> 400, body |-> Detail(<<"No text extracted from the file.">>)]
            /\ Calls(r) \cap AfterExtractCalls = {}

\* a PDF whose pages hold whitespace only was answered
C4_Witness ==
    \E r \in Reqs :
        /\ Done(r)
        /\ content_type[r] = PDF
        /\ text[r] = <<NL, SP>>
        /\ resp[r].status = 400

\* C5: a request whose LLM response, after the fences are stripped, does
\* not decode as JSON is answered 500 with the invalid-JSON detail and
\* issues no CRM call.
C5_InvalidJSON500 ==
    \A r \in Reqs :
        Done(r) /\ "generate_content" \in Returned(r) /\ ~loads(raw[r]).ok =>
            /\ resp[r] = [status |-> 500, body |-> Detail(<<"Gemini returned invalid JSON.">>)]
            /\ Calls(r) \cap CRMCalls = {}

\* the fenced answer with the trailing comma was cleaned of its fences,
\* failed to decode and was answered
C5_Witness ==
    \E r \in Reqs :
        /\ Done(r)
        /\ "generate_content" \in Returned(r)
        /\ raw[r] = <<C("{")>> \o Email \o <<C(","), C("}")>>
        /\ resp[r].status = 500

\* the parsed object has every key the dict literals of the two branches read
Complete(obj) == \A key \in WriteKeys : HasKey(obj, key)
\* the step on which request r leaves label with its call having returned
Leaves(r, label) == pc[r] = label /\ pc'[r] # label /\ LastReturned(ops'[r])

C3_Upsert ==
    \A r \in Reqs :
        Done(r) /\ "contacts.do_search" \in Returned(r) =>
            LET writes == Writes(r)
                found == search_res[r]
            IN  /\ Len(writes) = IF Complete(parsed[r]) THEN 1 ELSE 0
                /\ Complete(parsed[r]) =>
                      /\ writes[1].call = (IF found # 0 THEN "contacts.update" ELSE "contacts.create")
                      /\ writes[1].arg = found
                /\ resp[r].status = 200 <=>
                      Complete(parsed[r]) /\ writes[1].res = "ok" /\ ~HasNaN(parsed[r])
                /\ resp[r].status = 200 => resp[r].body = parsed[r]
                /\ resp[r].status # 200 => resp[r].status = 500

\* the step part of C3 as amended: what a contact write that returned did
C3_WriteStep ==
    \A r \in Reqs :
        /\ Leaves(r, "update") =>
              /\ Len(contacts') = Len(contacts)
              /\ \A id \in 1..Len(contacts) :
                    /\ id # search_res[r] => contacts'[id] = contacts[id]
                    /\ contacts'[id].email = contacts[id].email
              /\ contacts'[search_res[r]].resume_file_url = file_url[r]
        /\ Leaves(r, "create") =>
              /\ contacts' # contacts
              /\ SubSeq(contacts', 1, Len(contacts)) = contacts
              /\ Len(contacts') = Len(contacts) + 1
              /\ contacts'[Len(contacts')].email = GetKey(parsed[r], <<"email">>).v

Stage(call) ==
    CASE call \in ExtractCalls -> 1
      [] call = "upload_bytes_to_hs" -> 2
      [] call = "generate_content" -> 3
      [] call = "properties.get_by_name" -> 4
      [] call = "properties.update" -> 5
      [] call = "contacts.do_search" -> 6
      [] call \in ContactWrites -> 7

\* the state part of C7
C7_Order ==
    \A r \in Reqs :
        /\ \A i, j \in 1..Len(ops[r]) :
              i < j => Stage(ops[r][i].call) < Stage(ops[r][j].call)
        /\ \A i \in 1..Len(ops[r]) :
              ops[r][i].res = "raised" =>
                  i = Len(ops[r]) /\ Done(r) /\ resp[r].status \in {400, 500}
        /\ Done(r) => resp[r].status \in {200, 400, 500}
        /\ Done(r) /\ resp[r].status = 200 =>
              {Stage(call) : call \in Returned(r)} = 1..7
        /\ "upload_bytes_to_hs" \in Returned(r) => r \in hs_files

\* the step part of C7: a request that was answered does nothing more, and
\* no step takes a file out of the document store or a contact out of the CRM
C7_Step ==
    /\ \A r \in Reqs : Done(r) => ops'[r] = ops[r] /\ resp'[r] = resp[r] /\ Done(r)'
    /\ hs_files \subseteq hs_files'
    /\ Len(contacts) <= Len(contacts')

\* C7: within a request the calls are issued in the order extraction,
\* upload, LLM, property read, property update, contact search, contact
\* write, and the 200 response comes after all seven; a call that raised is
\* the request's last and the request is answered with an error; once
\* answered the request issues nothing; an uploaded file stays stored.
C7_LinearPipeline == []C7_Order /\ [][C7_Step]_vars

\* a request stored its file, then its LLM call raised and it was answered
\* 500 with the file still stored
C7_Witness ==
    \E r \in Reqs :
        /\ Done(r)
        /\ "upload_bytes_to_hs" \in Returned(r)
        /\ "generate_content" \in Calls(r) \ Returned(r)
        /\ resp[r].status = 500
        /\ r \in hs_files

\* the parsed LLM output of request r is a JSON object without the key email
LacksEmail(r) == parsed[r].t = "obj" /\ ~HasKey(parsed[r], <<"email">>)

\* C10 as stated: a request answered with an error has changed neither the
\* skills enumeration nor a contact; one whose parsed object lacks email is
\* answered 500 and issues no contact call.
C10_ErrorLeavesCRMUnchanged ==
    \A r \in Reqs :
        /\ Done(r) /\ resp[r].status # 200 => Wrote(r) = {}
        /\ Done(r) /\ LacksEmail(r) =>
              resp[r].status = 500 /\ Calls(r) \cap ContactCalls = {}

\* the state part of C10 as amended
C10_Errors ==
    \A r \in Reqs :
        /\ Done(r) /\ resp[r].status # 200 /\ "properties.update" \notin Returned(r) =>
              Wrote(r) = {}
        /\ Done(r) /\ LacksEmail(r) =>
              /\ resp[r].status = 500
              /\ Calls(r) \cap ContactCalls = {}
              /\ Wrote(r) \subseteq {"properties.update"}

\* the step part of C10 as amended: the property update that returned
C10_UpdateStep ==
    \A r \in Reqs :
        Leaves(r, "update_prop") =>
            /\ skill_options' = existing[r] \cup incoming(parsed[r])
            /\ LacksEmail(r) <=> Done(r)'

\* C10, amended: a request answered with an error before its skills-property
\* update returned has changed neither the enumeration nor a contact.  A
\* request whose parsed object lacks email is answered 500 and issues no
\* contact search, create or update, but the property update precedes the
\* lookup of email: when it returns, the enumeration is the union of the
\* options the request read and the parsed skills, and the request is
\* answered right after it.
C10_ErrorEffectsAmended == []C10_Errors /\ [][C10_UpdateStep]_vars

\* a request without email added the skill Go to the enumeration and was
\* answered 500
C10_Witness ==
    \E r \in Reqs :
        /\ Done(r)
        /\ LacksEmail(r)
        /\ "properties.update" \in Wrote(r)
        /\ <<"Go">> \in skill_options
        /\ resp[r].status = 500

\* C8: once extract_text_from_docx has returned or raised, no temporary
\* file it created exists.
C8_NoTempFileLeft == tmp_files = 0

\* C9: for requests carrying the same email, at most one contact create is
\* issued for it and the CRM never holds more than one contact with it.
C9_OneCreatePerEmail ==
    /\ Cardinality({r \in Reqs : "contacts.create" \in Calls(r)}) <= 1
    /\ Cardinality(Matches(EMAIL1)) <= 1

\* ------------------------------------------- the cleanup on fenced answers
\* JSON texts: a value with up to MaxPad whitespace characters on each side.
\* The values are scalars (one of them a string that holds a fence, one the
\* string json) and the arrays and objects of up to MaxElems of them.
Atoms == {<<Digit>>, NULL, <<NAN>>, <<Q("a")>>, <<Q("json")>>, <<S(<<"BQ", "BQ", "BQ">>)>>}
Tuples(set, n) == UNION {[1..m -> set] : m \in 0..n}
JsonValues ==
    Atoms
    \cup {Array(items) : items \in Tuples(Atoms, MaxElems)}
    \cup {Object(members) : members \in Tuples({Member("k", a) : a \in Atoms}, MaxElems)}
Pads == Tuples({SP, NL}, MaxPad)
JsonTexts == {before \o value \o after : before \in Pads, value \in JsonValues, after \in Pads}

\* response.text for the JSON text J: as it is, in a fenced block, in a
\* fenced block tagged json
Wrap(kind, J) ==
    CASE kind = "plain" -> J
      [] kind = "fence" -> FENCE \o J \o FENCE
      [] kind = "json"  -> FENCE \o JSONTAG \o J \o FENCE

InitSanitize ==
    /\ InitReqs
    /\ InitCRM
    /\ contacts = <<>>
    /\ san \in {[J |-> J, wrap |-> "", text |-> <<>>, step |-> "ask"] : J \in JsonTexts}

\* the model answers with J, wrapped one way
Answer(kind) ==
    /\ san.step = "ask"
    /\ san' = [san EXCEPT !.wrap = kind, !.text = Wrap(kind, san.J), !.step = "answered"]
    /\ UNCHANGED <<reqvars, crmvars>>
AnswerPlain == Answer("plain")
AnswerFenced == Answer("fence")
AnswerFencedJson == Answer("json")

\* lines 154-157
Cleanup ==
    /\ san.step = "answered"
    /\ san' = [san EXCEPT !.text = sanitize(san.text), !.step = "cleaned"]
    /\ UNCHANGED <<reqvars, crmvars>>

NextSanitize == AnswerPlain \/ AnswerFenced \/ AnswerFencedJson \/ Cleanup

SpecSanitize == InitSanitize /\ [][NextSanitize]_vars

\* C6: whichever way the JSON text J was wrapped (not at all, in a fence, in
\* a fence tagged json), the text handed to json.loads is the one the bare J
\* gives, namely J without its surrounding whitespace, and it decodes to the
\* value of J.
C6_FenceTransparent ==
    san.step = "cleaned" =>
        /\ san.text = strip(san.J)
        /\ loads(san.text).ok
        /\ loads(san.text).val = loads(san.J).val

\* a padded JSON text holding a fence inside a string, answered in a fence
\* tagged json, has been cleaned
C6_Witness ==
    /\ san.step = "cleaned"
    /\ san.wrap = "json"
    /\ san.J = <<NL>> \o Array(<<<<S(<<"BQ", "BQ", "BQ">>)>>, <<Q("json")>>>>) \o <<NL>>
====
